---------------------------- MODULE Spec2Model ----------------------------
(***************************************************************************)
(* A model of src/arcadegame.py: the frame loop of Game.run, the session   *)
(* state machine, and the per-tick update of Player, ProjectileManager,    *)
(* PowerUp, Cutscene and OpeningCrawl.                                     *)
(*                                                                         *)
(* Number representation.  pygame.Rect holds ints; assigning a float to a  *)
(* Rect attribute truncates toward zero.  Floats of the source are kept as *)
(* scaled integers:                                                        *)
(*   difficulty_multiplier   tenths        (1.3  -> 13)                    *)
(*   Projectile.speed        thousandths   (7 * 0.8 * 1.3 -> 7280)         *)
(*   crawl text y positions  halves        (scroll_speed 1.5 -> 3)         *)
(*   dash trail positions    fifths        (the i/5 interpolation)         *)
(* Time is the millisecond clock pygame.time.get_ticks(); one frame reads  *)
(* it once (an update pass is far shorter than a millisecond).             *)
(***************************************************************************)
EXTENDS Integers, Sequences, FiniteSets, TLC

VARIABLES
    loop,               \* Game.run: "running", "quit" (QUIT event), "crashed" (exception)
    now,                \* pygame.time.get_ticks() as read in the last frame
    SCREEN_WIDTH,       \* Config.SCREEN_WIDTH  (rewritten by VIDEORESIZE)
    SCREEN_HEIGHT,      \* Config.SCREEN_HEIGHT (rewritten by VIDEORESIZE)
    state,              \* Game.state
    lives,              \* Game.lives
    score,              \* Game.score
    cutscene_triggered, \* Game.cutscene_triggered
    screen_shake,       \* Game.screen_shake
    start_button_rect,  \* Game.start_button_rect: None or the rect of the last draw_menu
    player,             \* Game.player
    pm,                 \* Game.projectile_manager
    powerups,           \* Game.powerups
    particles,          \* Game.particle_system.particles (remaining lifetimes)
    cutscene,           \* Game.cutscene
    crawl,              \* Game.opening_crawl
    obs,                \* history: what the last step did (inputs, intermediate values)
    hist                \* history: counters over the run

vars == <<loop, now, SCREEN_WIDTH, SCREEN_HEIGHT, state, lives, score,
          cutscene_triggered, screen_shake, start_button_rect, player, pm,
          powerups, particles, cutscene, crawl, obs, hist>>

-----------------------------------------------------------------------------
(* Config *)

INIT_SCREEN_WIDTH == 900
INIT_SCREEN_HEIGHT == 700
DASH_DISTANCE == 80
DASH_COOLDOWN == 1000
CUTSCENE_TRIGGER_SCORE == 1000
PROJECTILE_W == 20
PROJECTILE_H == 10
PROJECTILE_SPEED == 7
PROJECTILE_FIRE_DELAY == 14
POWERUP_SIZE == 25
POWERUP_DURATION == 5000
POWERUP_LIFESPAN == 10000
INITIAL_LIVES == 3
CUTSCENE_MESSAGE_DURATION == 3000
DIFFICULTY_INCREASE_SCORE == 500
NUM_MESSAGES == 2
NUM_CRAWL_LINES == 24
EXPLOSION_COUNT == 15
SHAKE_FRAMES == 10

(* Sizes the assets decide: the player's first animation frame (scaled by  *)
(* PLAYER_SCALE) and the start button image.                               *)
PLAYER_W == 64
PLAYER_H == 64
BUTTON_W == 200
BUTTON_H == 80

OPENING_CRAWL == "OPENING_CRAWL"
MENU == "MENU"
PLAYING == "PLAYING"
CUTSCENE == "CUTSCENE"
GAME_OVER == "GAME_OVER"
GameState == {OPENING_CRAWL, MENU, PLAYING, CUTSCENE, GAME_OVER}

SHIELD == "SHIELD"
RAPID_FIRE == "RAPID_FIRE"
SLOW_TIME == "SLOW_TIME"
MULTI_LIFE == "MULTI_LIFE"
PowerUpType == {SHIELD, RAPID_FIRE, SLOW_TIME, MULTI_LIFE}

\* None for a rect: bool() of a pygame.Rect is False when it is empty, as for None
NoRect == [x |-> 0, y |-> 0, w |-> 0, h |-> 0]
RectTrue(r) == r.w # 0 /\ r.h # 0

\* a frame's power-up spawn draw: none (random.random() >= POWERUP_SPAWN_CHANCE)
NoSpawn == <<>>

-----------------------------------------------------------------------------
(* Arithmetic and pygame.Rect *)

Min(a, b) == IF a <= b THEN a ELSE b
Max(a, b) == IF a >= b THEN a ELSE b

\* int(n / d) of C and of pygame's float-to-int conversion: toward zero (d > 0)
TruncDiv(n, d) == IF n >= 0 THEN n \div d ELSE -((-n) \div d)

Rect(x, y, w, h) == [x |-> x, y |-> y, w |-> w, h |-> h]

\* Rect.colliderect: the rects overlap in a region of positive area
CollideRect(a, b) ==
    /\ a.x < b.x + b.w
    /\ b.x < a.x + a.w
    /\ a.y < b.y + b.h
    /\ b.y < a.y + a.h

\* Rect.collidepoint
CollidePoint(r, px, py) ==
    /\ r.x <= px /\ px < r.x + r.w
    /\ r.y <= py /\ py < r.y + r.h

\* mutant of ClampAxis: the far edge is not clamped
ClampAxisNear(pos, size, bound) ==
    IF size >= bound THEN bound \div 2 - size \div 2
    ELSE IF pos < 0 THEN 0
    ELSE pos

\* one axis of Rect.clamp_ip(Rect(0, 0, bound, _)): a rect too large is centred
ClampAxis(pos, size, bound) ==
    IF size >= bound THEN bound \div 2 - size \div 2
    ELSE IF pos < 0 THEN 0
    ELSE IF pos + size > bound THEN bound - size
    ELSE pos

\* the elements of s that satisfy Test, in order
\* F applied to the value of v, v being evaluated once
Bind(v, F(_)) == CHOOSE r \in {F(x) : x \in {v}} : TRUE

RECURSIVE SelectIdx(_, _, _)
SelectIdx(s, keep, i) ==
    IF i > Len(s) THEN <<>>
    ELSE (IF i \in keep THEN <<s[i]>> ELSE <<>>) \o SelectIdx(s, keep, i + 1)

\* s without its element at index i   (del s[i])
RemoveAt(s, i) == SubSeq(s, 1, i - 1) \o SubSeq(s, i + 1, Len(s))

-----------------------------------------------------------------------------
(* Player *)

PlayerRect(p) == Rect(p.x, p.y, PLAYER_W, PLAYER_H)

\* Player.__init__: frames[0].get_rect(center=start_pos)
PlayerNew(cx, cy) ==
    [x |-> cx - PLAYER_W \div 2, y |-> cy - PLAYER_H \div 2,
     frozen |-> FALSE,
     last_dash_time |-> 0, dash_trail |-> <<>>,
     shield_active |-> FALSE, shield_end_time |-> 0,
     rapid_fire_active |-> FALSE, rapid_fire_end_time |-> 0,
     slow_time_active |-> FALSE, slow_time_end_time |-> 0]

DirKeys == {"left", "right", "up", "down"}

\* Player.move; speed in halves: 5 -> 10, 5 * 1.5 -> 15
PlayerMove(p, keys, W, H) ==
    IF p.frozen THEN p
    ELSE LET speed2 == IF p.slow_time_active THEN 15 ELSE 10
             x1 == IF "left" \in keys THEN TruncDiv(2 * p.x - speed2, 2) ELSE p.x
             x2 == IF "right" \in keys THEN TruncDiv(2 * x1 + speed2, 2) ELSE x1
             y1 == IF "up" \in keys THEN TruncDiv(2 * p.y - speed2, 2) ELSE p.y
             y2 == IF "down" \in keys THEN TruncDiv(2 * y1 + speed2, 2) ELSE y1
         IN [p EXCEPT !.x = ClampAxis(x2, PLAYER_W, W),
                      !.y = ClampAxis(y2, PLAYER_H, H)]

\* mutant of DashDir: no default direction when no movement key is held
DashDirNoDefault(keys) ==
    LET dx0 == IF "right" \in keys THEN 1 ELSE IF "left" \in keys THEN -1 ELSE 0
        dy0 == IF "down" \in keys THEN 1 ELSE IF "up" \in keys THEN -1 ELSE 0
    IN IF dx0 # 0 /\ dy0 # 0 THEN <<707 * dx0, 707 * dy0>>
       ELSE <<1000 * dx0, 1000 * dy0>>

\* the dash direction, in thousandths: 1, 0.707 per axis on a diagonal
DashDir(keys) ==
    LET dx0 == IF "right" \in keys THEN 1 ELSE IF "left" \in keys THEN -1 ELSE 0
        dy0 == IF "down" \in keys THEN 1 ELSE IF "up" \in keys THEN -1 ELSE 0
        dx1 == IF dx0 = 0 /\ dy0 = 0 THEN 1 ELSE dx0
    IN IF dx1 # 0 /\ dy0 # 0 THEN <<707 * dx1, 707 * dy0>>
       ELSE <<1000 * dx1, 1000 * dy0>>

\* the 5 trail points of one dash, positions in fifths
DashTrail(ocx, ocy, ncx, ncy) ==
    [i \in 1..5 |-> [x5 |-> 5 * ocx + (ncx - ocx) * (i - 1),
                     y5 |-> 5 * ocy + (ncy - ocy) * (i - 1),
                     alpha |-> 150 - (i - 1) * 30]]

\* mutant of DashReady: the cooldown ends one millisecond early
DashReadyEarly(p, keys, t) ==
    /\ t - p.last_dash_time >= DASH_COOLDOWN
    /\ "dash" \in keys

DashReady(p, keys, t) ==
    /\ t - p.last_dash_time > DASH_COOLDOWN
    /\ "dash" \in keys

\* Player.dash: [ret, p]
PlayerDash(p, keys, t, W, H) ==
    IF DashReady(p, keys, t)
    THEN LET d == DashDir(keys)
             nx == ClampAxis(p.x + TruncDiv(d[1] * DASH_DISTANCE, 1000), PLAYER_W, W)
             ny == ClampAxis(p.y + TruncDiv(d[2] * DASH_DISTANCE, 1000), PLAYER_H, H)
         IN [ret |-> TRUE,
             p |-> [p EXCEPT !.x = nx, !.y = ny,
                        !.dash_trail = p.dash_trail \o
                            DashTrail(p.x + PLAYER_W \div 2, p.y + PLAYER_H \div 2,
                                      nx + PLAYER_W \div 2, ny + PLAYER_H \div 2),
                        !.last_dash_time = t]]
    ELSE [ret |-> FALSE, p |-> p]

\* the dash trail step of Player.update
TrailDecay(trail) ==
    LET kept == SelectIdx(trail, {i \in 1..Len(trail) : trail[i].alpha > 0}, 1)
    IN [i \in 1..Len(kept) |-> [kept[i] EXCEPT !.alpha = kept[i].alpha - 30]]

\* whether Player.update switches an active effect off
Expired(t, end_time) == t > end_time

\* mutant of PlayerUpdate: effects are not switched off
PlayerUpdateNoExpiry(p, t) ==
    [p EXCEPT !.dash_trail = TrailDecay(p.dash_trail)]

\* Player.update (the animation frame is rendering state and is left out)
PlayerUpdate(p, t) ==
    [p EXCEPT
        !.shield_active = p.shield_active /\ ~Expired(t, p.shield_end_time),
        !.rapid_fire_active = p.rapid_fire_active /\ ~Expired(t, p.rapid_fire_end_time),
        !.slow_time_active = p.slow_time_active /\ ~Expired(t, p.slow_time_end_time),
        !.dash_trail = TrailDecay(p.dash_trail)]

\* mutant of ActivatePowerup: a running effect is extended, not replaced
ActivatePowerupStacking(p, type, t) ==
    IF type = SHIELD
    THEN [p EXCEPT !.shield_active = TRUE,
                   !.shield_end_time = Max(p.shield_end_time, t) + POWERUP_DURATION]
    ELSE IF type = RAPID_FIRE
    THEN [p EXCEPT !.rapid_fire_active = TRUE,
                   !.rapid_fire_end_time = Max(p.rapid_fire_end_time, t) + POWERUP_DURATION]
    ELSE IF type = SLOW_TIME
    THEN [p EXCEPT !.slow_time_active = TRUE,
                   !.slow_time_end_time = Max(p.slow_time_end_time, t) + POWERUP_DURATION]
    ELSE p

\* Player.activate_powerup
ActivatePowerup(p, type, t) ==
    IF type = SHIELD
    THEN [p EXCEPT !.shield_active = TRUE, !.shield_end_time = t + POWERUP_DURATION]
    ELSE IF type = RAPID_FIRE
    THEN [p EXCEPT !.rapid_fire_active = TRUE,
                   !.rapid_fire_end_time = t + POWERUP_DURATION]
    ELSE IF type = SLOW_TIME
    THEN [p EXCEPT !.slow_time_active = TRUE,
                   !.slow_time_end_time = t + POWERUP_DURATION]
    ELSE p

-----------------------------------------------------------------------------
(* Projectile, ProjectileManager *)

ProjectileRect(pr) == Rect(pr.x, pr.y, PROJECTILE_W, PROJECTILE_H)

\* Projectile.__init__(0, y, speed_multiplier), speed_multiplier =
\* random.uniform(0.8, 1.2) * difficulty_multiplier; u100 is the uniform
\* draw in hundredths, dm10 the difficulty in tenths, speed in thousandths
ProjectileNew(y, u100, dm10) ==
    [x |-> 0, y |-> y, speed |-> PROJECTILE_SPEED * u100 * dm10]

\* time_multiplier in tenths: 0.3 while slow-time is active, else 1.0
TimeMultiplier(p) == IF p.slow_time_active THEN 3 ELSE 10

\* Projectile.update: rect.x += speed * time_multiplier (the trail of the
\* last 5 positions is rendering state and is left out)
ProjectileMove(pr, tm10) ==
    [pr EXCEPT !.x = TruncDiv(pr.x * 10000 + pr.speed * tm10, 10000)]

\* the value Projectile.update returns: False once off-screen
ProjectileOnScreen(pr, W) == pr.x <= W

\* ProjectileManager.__init__
ProjectileManagerNew ==
    [projectiles |-> <<>>, fire_counter |-> 0, active |-> TRUE,
     difficulty_multiplier |-> 10]

\* mutant of UpdateDifficulty: the step is taken one point late
UpdateDifficultyLate(m, sc) ==
    [m EXCEPT !.difficulty_multiplier =
        10 + (Max(sc - 1, 0) \div DIFFICULTY_INCREASE_SCORE) * 3]

\* ProjectileManager.update_difficulty
UpdateDifficulty(m, sc) ==
    [m EXCEPT !.difficulty_multiplier = 10 + (sc \div DIFFICULTY_INCREASE_SCORE) * 3]

\* mutant of FireDue: rapid fire does not double the fire delay
FireDueNoRapid(counter, dm10, rapid) ==
    counter * dm10 >= PROJECTILE_FIRE_DELAY * 10

\* fire_counter >= fire_delay, fire_delay = PROJECTILE_FIRE_DELAY /
\* difficulty_multiplier, doubled while rapid fire is active
FireDue(counter, dm10, rapid) ==
    counter * dm10 >= PROJECTILE_FIRE_DELAY * 10 * (IF rapid THEN 2 ELSE 1)

NumProjectiles(dm10) == IF dm10 < 20 THEN 1 ELSE 2

\* ProjectileManager.update: [m, err]; spawn is the sequence of (y, u100)
\* draws.  random.randint(0, SCREEN_HEIGHT - 10) raises ValueError on an
\* empty range: err, with fire_counter already reset.
PMUpdate(m, p, spawn, W, H) ==
    IF ~m.active THEN [m |-> m, err |-> FALSE]
    ELSE LET counter == m.fire_counter + 1
             due == FireDue(counter, m.difficulty_multiplier, p.rapid_fire_active)
             n == NumProjectiles(m.difficulty_multiplier)
             fresh == [k \in 1..n |->
                         ProjectileNew(spawn[k].y, spawn[k].u100, m.difficulty_multiplier)]
             all == IF due THEN m.projectiles \o fresh ELSE m.projectiles
             moved == [k \in 1..Len(all) |-> ProjectileMove(all[k], TimeMultiplier(p))]
             kept == SelectIdx(moved,
                        {k \in 1..Len(moved) : ProjectileOnScreen(moved[k], W)}, 1)
         IN IF due /\ H - PROJECTILE_H < 0
            THEN [m |-> [m EXCEPT !.fire_counter = 0], err |-> TRUE]
            ELSE [m |-> [m EXCEPT !.fire_counter = IF due THEN 0 ELSE counter,
                                  !.projectiles = kept],
                  err |-> FALSE]

\* the indices of the projectiles that overlap the rect
Overlapping(projs, r) ==
    {k \in 1..Len(projs) : CollideRect(ProjectileRect(projs[k]), r)}

\* mutant of HitIndex: the last overlapping projectile is removed
HitIndexLast(hits) == CHOOSE k \in hits : \A j \in hits : k >= j

\* the projectile check_collision deletes, among the overlapping ones
HitIndex(hits) == CHOOSE k \in hits : \A j \in hits : k <= j

\* mutant of CheckCollision: the shield is not consulted
CheckCollisionNoShield(m, r, p) ==
    LET hits == Overlapping(m.projectiles, r)
    IN IF hits = {}
       THEN [ret |-> FALSE, m |-> m]
       ELSE [ret |-> TRUE,
             m |-> [m EXCEPT !.projectiles = RemoveAt(m.projectiles, HitIndex(hits))]]

\* ProjectileManager.check_collision: [ret, m]
CheckCollision(m, r, p) ==
    LET hits == Overlapping(m.projectiles, r)
    IN IF p.shield_active \/ hits = {}
       THEN [ret |-> FALSE, m |-> m]
       ELSE [ret |-> TRUE,
             m |-> [m EXCEPT !.projectiles = RemoveAt(m.projectiles, HitIndex(hits))]]

-----------------------------------------------------------------------------
(* PowerUp *)

PowerUpRect(pu) == Rect(pu.x, pu.y, POWERUP_SIZE, POWERUP_SIZE)

\* PowerUp.__init__; bob is bob_offset in milliradians
PowerUpNew(x, y, type, bob, t) ==
    [x |-> x, y |-> y, type |-> type, spawn_time |-> t, bob |-> bob]

\* the sign of sin(theta), theta in milliradians (2 pi ~ 6283)
SinSign(theta) ==
    LET r == theta % 6283
    IN IF r = 0 THEN 0 ELSE IF r < 3142 THEN 1 ELSE -1

\* rect.y += sin(...) * 0.5: an offset in (-0.5, 0.5), truncated toward zero
Bob(y, sign) ==
    IF sign < 0 /\ y >= 1 THEN y - 1
    ELSE IF sign > 0 /\ y <= -1 THEN y + 1
    ELSE y

\* mutant of PowerUpAlive: a power-up lives through its 10000th millisecond
PowerUpAliveLate(pu, t) == t - pu.spawn_time <= POWERUP_LIFESPAN

\* the value PowerUp.update returns: power-ups last 10 seconds
PowerUpAlive(pu, t) == t - pu.spawn_time < POWERUP_LIFESPAN

\* PowerUp.update's move
PowerUpBob(pu, t) ==
    [pu EXCEPT !.y = Bob(pu.y, SinSign((t - pu.spawn_time) * 5 + pu.bob))]

\* self.powerups = [p for p in self.powerups if p.update()]
PowerUpsUpdate(pus, t) ==
    LET moved == [k \in 1..Len(pus) |-> PowerUpBob(pus[k], t)]
    IN SelectIdx(moved, {k \in 1..Len(moved) : PowerUpAlive(moved[k], t)}, 1)

-----------------------------------------------------------------------------
(* ParticleSystem: a particle is its remaining lifetime (position, colour  *)
(* and velocity are never read back by the game logic)                     *)

\* ParticleSystem.update
ParticlesUpdate(ps) ==
    LET aged == [k \in 1..Len(ps) |-> ps[k] - 1]
    IN SelectIdx(aged, {k \in 1..Len(aged) : aged[k] > 0}, 1)

\* ParticleSystem.add_explosion: count particles, lifetime the draw of randint(20, 40)
AddExplosion(ps, lifetime) == ps \o [k \in 1..EXPLOSION_COUNT |-> lifetime]

\* ParticleSystem.add_trail: lifetime the draw of randint(10, 20)
AddTrail(ps, lifetime) == Append(ps, lifetime)

-----------------------------------------------------------------------------
(* Cutscene *)

CutsceneNew == [active |-> FALSE, stage |-> 0, timer_start |-> 0]

\* Cutscene.start (the enemy rect is only drawn)
CutsceneStart(t) == [active |-> TRUE, stage |-> 0, timer_start |-> t]

\* mutant of CutsceneUpdate: the timer is not restarted for the next message
CutsceneUpdateNoRestart(c, t) ==
    IF ~c.active THEN [ret |-> TRUE, c |-> c]
    ELSE IF t - c.timer_start >= CUTSCENE_MESSAGE_DURATION
    THEN IF c.stage + 1 >= NUM_MESSAGES
         THEN [ret |-> TRUE, c |-> [c EXCEPT !.stage = c.stage + 1, !.active = FALSE]]
         ELSE [ret |-> FALSE, c |-> [c EXCEPT !.stage = c.stage + 1]]
    ELSE [ret |-> FALSE, c |-> c]

\* Cutscene.update: [ret, c]
CutsceneUpdate(c, t) ==
    IF ~c.active THEN [ret |-> TRUE, c |-> c]
    ELSE IF t - c.timer_start >= CUTSCENE_MESSAGE_DURATION
    THEN IF c.stage + 1 >= NUM_MESSAGES
         THEN [ret |-> TRUE, c |-> [c EXCEPT !.stage = c.stage + 1, !.active = FALSE]]
         ELSE [ret |-> FALSE, c |-> [c EXCEPT !.stage = c.stage + 1, !.timer_start = t]]
    ELSE [ret |-> FALSE, c |-> c]

-----------------------------------------------------------------------------
(* OpeningCrawl: positions in halves *)

\* OpeningCrawl.reset, run by __init__ with SCREEN_HEIGHT = 700
CrawlNew ==
    [text_y_positions |-> [k \in 1..NUM_CRAWL_LINES |->
                              2 * (INIT_SCREEN_HEIGHT + (k - 1) * 50)],
     skip_timer |-> 0, can_skip |-> FALSE]

\* mutant of CrawlUpdate: the crawl ends when the last line reaches -100
CrawlUpdateEarly(c) ==
    LET ys == [k \in 1..NUM_CRAWL_LINES |-> c.text_y_positions[k] - 3]
    IN IF ys[NUM_CRAWL_LINES] <= 2 * (-100)
       THEN [ret |-> TRUE, c |-> [c EXCEPT !.text_y_positions = ys]]
       ELSE [ret |-> FALSE,
             c |-> [c EXCEPT !.text_y_positions = ys,
                             !.skip_timer = c.skip_timer + 1,
                             !.can_skip = c.can_skip \/ c.skip_timer + 1 > 60]]

\* OpeningCrawl.update: [ret, c]
CrawlUpdate(c) ==
    LET ys == [k \in 1..NUM_CRAWL_LINES |-> c.text_y_positions[k] - 3]
    IN IF ys[NUM_CRAWL_LINES] < 2 * (-100)
       THEN [ret |-> TRUE, c |-> [c EXCEPT !.text_y_positions = ys]]
       ELSE [ret |-> FALSE,
             c |-> [c EXCEPT !.text_y_positions = ys,
                             !.skip_timer = c.skip_timer + 1,
                             !.can_skip = c.can_skip \/ c.skip_timer + 1 > 60]]

-----------------------------------------------------------------------------
(* Game: the session record g holds the fields one update pass rewrites    *)

\* what a step records of itself
ObsBase ==
    [op |-> "init", t |-> 0, keys |-> {},
     score_in |-> 0, lives_in |-> 0,
     p_moved |-> PlayerNew(0, 0), dash_ret |-> FALSE, p_dashed |-> PlayerNew(0, 0),
     p_upd |-> PlayerNew(0, 0),
     pus_before |-> <<>>, taken |-> <<>>,
     p_coll |-> PlayerNew(0, 0), lives_coll |-> 0,
     proj_before |-> <<>>, coll_ret |-> FALSE,
     particles_in |-> <<>>, at |-> <<0, 0>>, pus_in |-> <<>>,
     p_in |-> PlayerNew(0, 0)]

Session ==
    [loop |-> loop, state |-> state, lives |-> lives, score |-> score,
     cutscene_triggered |-> cutscene_triggered, screen_shake |-> screen_shake,
     player |-> player, pm |-> pm, powerups |-> powerups,
     particles |-> particles, cutscene |-> cutscene, obs |-> obs, hist |-> hist]

Crash(g) == [g EXCEPT !.loop = "crashed"]

\* mutant of TriggerDue: the trigger waits for a score above the threshold
TriggerDueLate(g) ==
    ~g.cutscene_triggered /\ g.score > CUTSCENE_TRIGGER_SCORE

\* update_game, lines 756-764: the one-shot cutscene trigger
TriggerDue(g) ==
    ~g.cutscene_triggered /\ g.score >= CUTSCENE_TRIGGER_SCORE

\* mutant of Trigger: the one-shot flag is not set
TriggerNoFlag(g, t) ==
    [g EXCEPT !.state = CUTSCENE,
              !.cutscene = CutsceneStart(t),
              !.player = [g.player EXCEPT !.frozen = TRUE],
              !.pm = [g.pm EXCEPT !.active = FALSE],
              !.obs = [g.obs EXCEPT !.op = "trigger"],
              !.hist = [g.hist EXCEPT !.starts = g.hist.starts + 1,
                                      !.cut_start = t]]

Trigger(g, t) ==
    [g EXCEPT !.cutscene_triggered = TRUE,
              !.state = CUTSCENE,
              !.cutscene = CutsceneStart(t),
              !.player = [g.player EXCEPT !.frozen = TRUE],
              !.pm = [g.pm EXCEPT !.active = FALSE],
              !.obs = [g.obs EXCEPT !.op = "trigger"],
              !.hist = [g.hist EXCEPT !.starts = g.hist.starts + 1,
                                      !.cut_start = t]]

\* update_game, lines 766-774: move, dash, Player.update
StepPlayer(g, i, t, W, H) ==
    LET p1 == PlayerMove(g.player, i.keys, W, H)
        d == PlayerDash(p1, i.keys, t, W, H)
    IN [g EXCEPT !.player = PlayerUpdate(d.p, t),
                 !.particles = IF d.ret THEN AddTrail(g.particles, i.tlife)
                               ELSE g.particles,
                 !.obs = [g.obs EXCEPT !.p_moved = p1, !.dash_ret = d.ret,
                                       !.p_dashed = d.p,
                                       !.p_upd = PlayerUpdate(d.p, t)]]

\* update_game, lines 776-780: difficulty, ProjectileManager.update
StepProjectiles(g, i, W, H) ==
    LET r == PMUpdate(UpdateDifficulty(g.pm, g.score), g.player, i.spawn, W, H)
    IN IF r.err THEN Crash([g EXCEPT !.pm = r.m]) ELSE [g EXCEPT !.pm = r.m]

\* update_game, lines 782-792: particles, power-up expiry and spawn;
\* random.randint(50, SCREEN_WIDTH - 50) raises ValueError on an empty range
StepPowerUps(g, i, t, W, H) ==
    LET g1 == [g EXCEPT !.particles = ParticlesUpdate(g.particles),
                        !.powerups = PowerUpsUpdate(g.powerups, t),
                        !.obs = [g.obs EXCEPT !.pus_in = g.powerups]]
    IN IF i.pu = NoSpawn THEN g1
       ELSE IF W - 50 < 50 \/ H - 50 < 50 THEN Crash(g1)
       ELSE [g1 EXCEPT !.powerups =
                Append(g1.powerups,
                       PowerUpNew(i.pu[1].x, i.pu[1].y, i.pu[1].type, i.pu[1].bob, t)),
                       !.hist = [g1.hist EXCEPT !.spawned = g1.hist.spawned + 1]]

\* mutant of CollectOne: every collected power-up grants a life
CollectOneLife(g, pu, i, t) ==
    [g EXCEPT !.lives = g.lives + 1,
              !.player = IF pu.type = MULTI_LIFE THEN g.player
                         ELSE ActivatePowerup(g.player, pu.type, t),
              !.particles = AddExplosion(g.particles, i.plife),
              !.obs = [g.obs EXCEPT !.taken = Append(g.obs.taken, pu)]]

\* one iteration of the collection loop, lines 796-806
CollectOne(g, pu, i, t) ==
    [g EXCEPT !.lives = IF pu.type = MULTI_LIFE THEN g.lives + 1 ELSE g.lives,
              !.player = IF pu.type = MULTI_LIFE THEN g.player
                         ELSE ActivatePowerup(g.player, pu.type, t),
              !.particles = AddExplosion(g.particles, i.plife),
              !.obs = [g.obs EXCEPT !.taken = Append(g.obs.taken, pu)]]

\* the collection loop over a copy of the list, from index k on; the
\* power-ups not collected are put back in order
RECURSIVE Collect(_, _, _, _, _)
Collect(g, pus, k, i, t) ==
    IF k > Len(pus) THEN g
    ELSE Bind(IF CollideRect(PowerUpRect(pus[k]), PlayerRect(g.player))
              THEN CollectOne(g, pus[k], i, t)
              ELSE [g EXCEPT !.powerups = Append(g.powerups, pus[k])],
              LAMBDA g1 : Collect(g1, pus, k + 1, i, t))

StepCollect(g, i, t) ==
    Collect([g EXCEPT !.powerups = <<>>,
                      !.obs = [g.obs EXCEPT !.pus_before = g.powerups]],
            g.powerups, 1, i, t)

\* mutant of StepCollision: the game ends one hit late
StepCollisionLate(g, i) ==
    LET c == CheckCollision(g.pm, PlayerRect(g.player), g.player)
        g0 == [g EXCEPT !.pm = c.m,
                        !.obs = [g.obs EXCEPT !.p_coll = g.player,
                                              !.lives_coll = g.lives,
                                              !.proj_before = g.pm.projectiles,
                                              !.coll_ret = c.ret]]
        g1 == [g0 EXCEPT !.lives = g0.lives - 1]
        g2 == [g1 EXCEPT !.screen_shake = SHAKE_FRAMES,
                         !.particles = AddExplosion(g1.particles, i.plife)]
        g3 == [g2 EXCEPT !.state = GAME_OVER]
    IN IF ~(c.ret /\ ~g.player.shield_active) THEN g0
       ELSE IF g2.lives >= 0 THEN g2
       ELSE g3

\* update_game, lines 808-821: the projectile hit; i.fail names the audio
\* calls that raise pygame.error in this frame
StepCollision(g, i) ==
    LET c == CheckCollision(g.pm, PlayerRect(g.player), g.player)
        g0 == [g EXCEPT !.pm = c.m,
                        !.obs = [g.obs EXCEPT !.p_coll = g.player,
                                              !.lives_coll = g.lives,
                                              !.proj_before = g.pm.projectiles,
                                              !.coll_ret = c.ret]]
        g1 == [g0 EXCEPT !.lives = g0.lives - 1]
        g2 == [g1 EXCEPT !.screen_shake = SHAKE_FRAMES,
                         !.particles = AddExplosion(g1.particles, i.plife)]
        g3 == [g2 EXCEPT !.state = GAME_OVER]
    IN IF ~(c.ret /\ ~g.player.shield_active) THEN g0
       ELSE IF "hit" \in i.fail THEN Crash(g1)
       ELSE IF g2.lives > 0 THEN g2
       ELSE IF "stop" \in i.fail \/ "game_over" \in i.fail THEN Crash(g3)
       ELSE g3

\* update_game, lines 823-832: screen shake countdown, score
StepScore(g) ==
    [g EXCEPT !.screen_shake = IF g.screen_shake > 0 THEN g.screen_shake - 1 ELSE 0,
              !.score = g.score + 1]

\* mutant of GameTick: the collision is resolved before the collection
GameTickCollisionFirst(g, i, t, W, H) ==
    Bind([g EXCEPT !.obs = [ObsBase EXCEPT !.op = "update_game", !.t = t,
                                     !.keys = i.keys,
                                     !.score_in = g.score, !.lives_in = g.lives]],
         LAMBDA g0 :
       IF TriggerDue(g0) THEN Trigger(g0, t)
       ELSE Bind(StepPlayer(g0, i, t, W, H), LAMBDA g1 :
            Bind(StepProjectiles(g1, i, W, H), LAMBDA g2 :
            Bind(IF g2.loop = "running" THEN StepPowerUps(g2, i, t, W, H) ELSE g2,
                 LAMBDA g3 :
            Bind(IF g3.loop = "running" THEN StepCollision(g3, i) ELSE g3,
                 LAMBDA g4 :
            Bind(IF g4.loop = "running" THEN StepCollect(g4, i, t) ELSE g4,
                 LAMBDA g5 :
            IF g5.loop = "running" THEN StepScore(g5) ELSE g5))))))

\* Game.update_game at clock reading t with the frame's inputs i
GameTick(g, i, t, W, H) ==
    Bind([g EXCEPT !.obs = [ObsBase EXCEPT !.op = "update_game", !.t = t,
                                     !.keys = i.keys,
                                     !.score_in = g.score, !.lives_in = g.lives]],
         LAMBDA g0 :
       IF TriggerDue(g0) THEN Trigger(g0, t)
       ELSE Bind(StepPlayer(g0, i, t, W, H), LAMBDA g1 :
            Bind(StepProjectiles(g1, i, W, H), LAMBDA g2 :
            Bind(IF g2.loop = "running" THEN StepPowerUps(g2, i, t, W, H) ELSE g2,
                 LAMBDA g3 :
            Bind(IF g3.loop = "running" THEN StepCollect(g3, i, t) ELSE g3,
                 LAMBDA g4 :
            Bind(IF g4.loop = "running" THEN StepCollision(g4, i) ELSE g4,
                 LAMBDA g5 :
            IF g5.loop = "running" THEN StepScore(g5) ELSE g5))))))

\* Game.start_game (a failure to start the music is caught)
StartGame(g, t, W, H) ==
    [g EXCEPT !.state = PLAYING,
              !.lives = INITIAL_LIVES,
              !.score = 0,
              !.cutscene_triggered = FALSE,
              !.player = [g.player EXCEPT !.x = W \div 2 - PLAYER_W \div 2,
                                          !.y = H \div 2 - PLAYER_H \div 2],
              !.pm = [g.pm EXCEPT !.projectiles = <<>>, !.active = TRUE],
              !.powerups = <<>>,
              !.particles = <<>>,
              !.obs = [ObsBase EXCEPT !.op = "start_game", !.t = t,
                                      !.score_in = g.score, !.lives_in = g.lives,
                                      !.proj_before = g.pm.projectiles,
                                      !.pus_before = g.powerups,
                                      !.particles_in = g.particles],
              !.hist = [g.hist EXCEPT !.starts = 0, !.games = g.hist.games + 1]]

\* mutant of ResetGame: the game-over click restarts play at once
ResetGameToPlaying(g, fail) ==
    [g EXCEPT !.state = PLAYING, !.obs = [ObsBase EXCEPT !.op = "reset_game"]]

\* Game.reset_game; pygame.mixer.music.stop() is not guarded
ResetGame(g, fail) ==
    LET g1 == [g EXCEPT !.state = MENU,
                        !.obs = [ObsBase EXCEPT !.op = "reset_game"]]
    IN IF "stop" \in fail THEN Crash(g1) ELSE g1

\* mutant of CutsceneTick: the player stays frozen when the cutscene ends
CutsceneTickFrozen(g, t) ==
    LET r == CutsceneUpdate(g.cutscene, t)
        g1 == [g EXCEPT !.cutscene = r.c,
                        !.obs = [ObsBase EXCEPT !.op = "update_cutscene", !.t = t]]
    IN IF r.ret
       THEN [g1 EXCEPT !.state = PLAYING, !.pm = [g.pm EXCEPT !.active = TRUE]]
       ELSE g1

\* mutant of CutsceneTick: the fire counter runs on during the cutscene
CutsceneTickFiring(g, t) ==
    LET r == CutsceneUpdate(g.cutscene, t)
        g1 == [g EXCEPT !.cutscene = r.c,
                        !.pm = [g.pm EXCEPT !.fire_counter = g.pm.fire_counter + 1],
                        !.obs = [ObsBase EXCEPT !.op = "update_cutscene", !.t = t]]
    IN IF r.ret
       THEN [g1 EXCEPT !.state = PLAYING,
                       !.player = [g.player EXCEPT !.frozen = FALSE],
                       !.pm = [g1.pm EXCEPT !.active = TRUE]]
       ELSE g1

\* Game.update_cutscene
CutsceneTick(g, t) ==
    LET r == CutsceneUpdate(g.cutscene, t)
        g1 == [g EXCEPT !.cutscene = r.c,
                        !.obs = [ObsBase EXCEPT !.op = "update_cutscene", !.t = t]]
    IN IF r.ret
       THEN [g1 EXCEPT !.state = PLAYING,
                       !.player = [g.player EXCEPT !.frozen = FALSE],
                       !.pm = [g.pm EXCEPT !.active = TRUE]]
       ELSE g1

\* mutant of Click: the menu click starts the game wherever it lands
ClickAnywhere(g, px, py, fail, t, W, H, button) ==
    IF g.state = MENU /\ RectTrue(button)
    THEN [StartGame(g, t, W, H) EXCEPT !.obs.at = <<px, py>>]
    ELSE IF g.state = GAME_OVER THEN ResetGame(g, fail)
    ELSE g

\* handle_events, lines 712-717: a left click at (px, py)
Click(g, px, py, fail, t, W, H, button) ==
    IF g.state = MENU /\ RectTrue(button)
    THEN IF CollidePoint(button, px, py)
         THEN [StartGame(g, t, W, H) EXCEPT !.obs.at = <<px, py>>]
         ELSE g
    ELSE IF g.state = GAME_OVER THEN ResetGame(g, fail)
    ELSE g

\* the start button as draw_menu places it
StartButton(W, H) ==
    Rect(W \div 2 - BUTTON_W \div 2, H \div 2 - BUTTON_H \div 2, BUTTON_W, BUTTON_H)

\* the session fields of the next state
Becomes(g) ==
    /\ loop' = g.loop
    /\ state' = g.state
    /\ lives' = g.lives
    /\ score' = g.score
    /\ cutscene_triggered' = g.cutscene_triggered
    /\ screen_shake' = g.screen_shake
    /\ player' = g.player
    /\ pm' = g.pm
    /\ powerups' = g.powerups
    /\ particles' = g.particles
    /\ cutscene' = g.cutscene
    /\ obs' = g.obs
    /\ hist' = g.hist

Note(op, t) == [ObsBase EXCEPT !.op = op, !.t = t]
Idle(h) == [h EXCEPT !.idle = h.idle + 1]

-----------------------------------------------------------------------------
(* Game.handle_events: one action per event of the queue *)

\* pygame.QUIT
Quit ==
    /\ loop = "running"
    /\ Becomes([Session EXCEPT !.loop = "quit", !.obs = Note("quit", now)])
    /\ UNCHANGED <<now, SCREEN_WIDTH, SCREEN_HEIGHT, start_button_rect, crawl>>

\* pygame.VIDEORESIZE
VideoResize(w, h) ==
    /\ loop = "running"
    /\ SCREEN_WIDTH' = w
    /\ SCREEN_HEIGHT' = h
    /\ Becomes([Session EXCEPT !.obs = Note("resize", now)])
    /\ UNCHANGED <<now, start_button_rect, crawl>>

\* mutant of OtherEvent: any event skips a crawl that shows its skip line
OtherEventSkips(kind) ==
    /\ loop = "running"
    /\ Becomes([Session EXCEPT
                   !.state = IF state = OPENING_CRAWL /\ crawl.can_skip
                             THEN MENU ELSE state,
                   !.obs = Note(kind, now)])
    /\ UNCHANGED <<now, SCREEN_WIDTH, SCREEN_HEIGHT, start_button_rect, crawl>>

\* an event no branch of handle_events matches (a key press or release, a
\* pointer-down of another button, pointer motion)
OtherEvent(kind) ==
    /\ loop = "running"
    /\ Becomes([Session EXCEPT !.obs = Note(kind, now)])
    /\ UNCHANGED <<now, SCREEN_WIDTH, SCREEN_HEIGHT, start_button_rect, crawl>>

\* pygame.MOUSEBUTTONDOWN, button 1, at (px, py)
MouseButtonDown(px, py, fail) ==
    /\ loop = "running"
    /\ \E g \in {Click(Session, px, py, fail, now, SCREEN_WIDTH, SCREEN_HEIGHT,
                       start_button_rect)} : Becomes(g)
    /\ UNCHANGED <<now, SCREEN_WIDTH, SCREEN_HEIGHT, start_button_rect, crawl>>

-----------------------------------------------------------------------------
(* Game.run: the rest of one frame (update, draw, clock.tick); dt is the   *)
(* time since the previous frame                                           *)

\* state OPENING_CRAWL: update_opening_crawl; draw_menu if it ended
UpdateOpeningCrawl(dt) ==
    /\ loop = "running"
    /\ state = OPENING_CRAWL
    /\ now' = now + dt
    /\ \E r \in {CrawlUpdate(crawl)} :
          /\ crawl' = r.c
          /\ Becomes([Session EXCEPT !.state = IF r.ret THEN MENU ELSE OPENING_CRAWL,
                                     !.obs = Note("update_opening_crawl", now'),
                                     !.hist = [hist EXCEPT
                                        !.crawl_calls = hist.crawl_calls + 1,
                                        !.crawl_true = hist.crawl_true +
                                                       (IF r.ret THEN 1 ELSE 0)]])
          /\ start_button_rect' = IF r.ret THEN StartButton(SCREEN_WIDTH, SCREEN_HEIGHT)
                                  ELSE start_button_rect
    /\ UNCHANGED <<SCREEN_WIDTH, SCREEN_HEIGHT>>

\* state MENU: no update; draw_menu places the start button
FrameMenu(dt) ==
    /\ loop = "running"
    /\ state = MENU
    /\ now' = now + dt
    /\ start_button_rect' = StartButton(SCREEN_WIDTH, SCREEN_HEIGHT)
    /\ Becomes([Session EXCEPT !.obs = Note("frame_menu", now'), !.hist = Idle(hist)])
    /\ UNCHANGED <<SCREEN_WIDTH, SCREEN_HEIGHT, crawl>>

\* state PLAYING: update_game
UpdateGame(i) ==
    /\ loop = "running"
    /\ state = PLAYING
    /\ now' = now + i.dt
    /\ \E g \in {GameTick(Session, i, now', SCREEN_WIDTH, SCREEN_HEIGHT)} : Becomes(g)
    /\ UNCHANGED <<SCREEN_WIDTH, SCREEN_HEIGHT, start_button_rect, crawl>>

\* state CUTSCENE: update_cutscene
UpdateCutscene(dt) ==
    /\ loop = "running"
    /\ state = CUTSCENE
    /\ now' = now + dt
    /\ \E g \in {CutsceneTick(Session, now')} : Becomes(g)
    /\ UNCHANGED <<SCREEN_WIDTH, SCREEN_HEIGHT, start_button_rect, crawl>>

\* state GAME_OVER: no update
FrameGameOver(dt) ==
    /\ loop = "running"
    /\ state = GAME_OVER
    /\ now' = now + dt
    /\ Becomes([Session EXCEPT !.obs = Note("frame_game_over", now'),
                               !.hist = Idle(hist)])
    /\ UNCHANGED <<SCREEN_WIDTH, SCREEN_HEIGHT, start_button_rect, crawl>>

\* starts: the Cutscene.start calls since the last start_game;
\* idle: the frames spent in MENU and GAME_OVER; games: the start_game
\* calls; spawned: the power-ups spawned; crawl_calls, crawl_true: the
\* calls of OpeningCrawl.update and those that returned True;
\* load_failed: the assets whose loading raised in load_assets;
\* cut_start: the clock reading of the last Cutscene.start
HistBase ==
    [starts |-> 0, idle |-> 0, games |-> 0, spawned |-> 0,
     crawl_calls |-> 0, crawl_true |-> 0, load_failed |-> {}, cut_start |-> 0]

\* the assets of AssetManager.load_assets, in the order of loading
Assets == <<"menu_bg", "start_button", "enemy", "player_gif", "hit", "game_over">>

\* mutant of LoadAssets: a sound that fails to load is skipped
LoadAssetsSilent(failed) ==
    IF \E k \in 1..Len(Assets) : Assets[k] \in failed \ {"hit", "game_over"}
    THEN "aborted" ELSE "running"

\* AssetManager.load_assets: an exception of a loader is caught and the
\* program left by sys.exit(1), which the handler of __main__ lets through
LoadAssets(failed) ==
    IF \E k \in 1..Len(Assets) : Assets[k] \in failed THEN "aborted" ELSE "running"

\* Game.__init__, at the window size (W, H) of Config, where loading the
\* assets of failed raises.  When load_assets leaves the program, the rest
\* of __init__ and run() are not executed: the session fields keep the
\* values of construction and no action is enabled.
ConstructWith(W, H, failed) ==
    /\ loop = LoadAssets(failed)
    /\ now = 0
    /\ SCREEN_WIDTH = W
    /\ SCREEN_HEIGHT = H
    /\ state = OPENING_CRAWL
    /\ lives = INITIAL_LIVES
    /\ score = 0
    /\ cutscene_triggered = FALSE
    /\ screen_shake = 0
    /\ start_button_rect = NoRect
    /\ player = PlayerNew(INIT_SCREEN_WIDTH \div 2, INIT_SCREEN_HEIGHT \div 2)
    /\ pm = ProjectileManagerNew
    /\ powerups = <<>>
    /\ particles = <<>>
    /\ cutscene = CutsceneNew
    /\ crawl = CrawlNew
    /\ obs = ObsBase
    /\ hist = [HistBase EXCEPT !.load_failed = failed]

\* Game.__init__ with every asset loaded
Construct(W, H) == ConstructWith(W, H, {})

Init == Construct(INIT_SCREEN_WIDTH, INIT_SCREEN_HEIGHT)

-----------------------------------------------------------------------------
(* Spec: the session from construction in the 900 x 700 window.  No key is *)
(* held, every frame takes FrameMs, no power-up spawns, and a projectile   *)
(* is drawn at the mean speed in one of two lanes: MissLane (above the     *)
(* player) or, from score AimFrom on, HitLane (through the player).        *)
(* The left button is pressed on the start button (ButtonClick) or in the  *)
(* window's corner (CornerClick), at any time.                             *)

FrameMs == 17
MaxNow == 47000
MaxIdle == 1
AimFrom == 950

Draw(lane) == [y |-> lane, u100 |-> 100]
MissLane == <<Draw(0), Draw(0)>>
HitLane == <<Draw(345), Draw(345)>>

\* the coming tick fires (a lane is drawn only then)
Firing ==
    FireDue(pm.fire_counter + 1, UpdateDifficulty(pm, score).difficulty_multiplier,
            player.rapid_fire_active)

SpecInputs ==
    [keys : {{}}, dt : {FrameMs},
     spawn : IF score >= AimFrom /\ Firing THEN {MissLane, HitLane} ELSE {MissLane},
     pu : {NoSpawn}, plife : {20}, tlife : {10}, fail : {{}}]

ButtonClick == <<INIT_SCREEN_WIDTH \div 2, INIT_SCREEN_HEIGHT \div 2>>
CornerClick == <<0, 0>>

Frame(I) ==
    \/ \E i \in I : UpdateOpeningCrawl(i.dt)
    \/ \E i \in I : FrameMenu(i.dt)
    \/ \E i \in I : UpdateGame(i)
    \/ \E i \in I : UpdateCutscene(i.dt)
    \/ \E i \in I : FrameGameOver(i.dt)

Next ==
    \/ Quit
    \/ MouseButtonDown(ButtonClick[1], ButtonClick[2], {})
    \/ MouseButtonDown(CornerClick[1], CornerClick[2], {})
    \/ /\ now + FrameMs <= MaxNow
       /\ state \in {MENU, GAME_OVER} => hist.idle < MaxIdle
       /\ Frame(SpecInputs)

Spec == Init /\ [][Next]_vars

-----------------------------------------------------------------------------
(* SpecPlay: the window is PlayW x PlayH from the start, so that the player *)
(* stands in the column where projectiles spawn.  Up is the only key; slow  *)
(* projectiles are drawn in the lane above the player or the lane through   *)
(* it; every PuEvery ticks a shield or an extra life may spawn on the       *)
(* player.  A game is followed for MaxPlayTicks ticks, the session until    *)
(* the clock reads MaxPlayNow.                                              *)

PlayW == 100
PlayH == 100
MaxPlayTicks == 57
MaxPlayNow == 23200
PuEvery == 13
MaxSpawns == 2

Slow(lane) == [y |-> lane, u100 |-> 80]
OnPlayer(type) == [x |-> 50, y |-> 50, type |-> type, bob |-> 0]

PlayInputs ==
    [keys : {{}, {"up"}}, dt : {FrameMs},
     spawn : IF Firing THEN {<<Slow(0), Slow(0)>>, <<Slow(45), Slow(45)>>}
             ELSE {<<Slow(0), Slow(0)>>},
     pu : IF score % PuEvery = 0 /\ hist.spawned < MaxSpawns
          THEN {NoSpawn, <<OnPlayer(SHIELD)>>, <<OnPlayer(MULTI_LIFE)>>}
          ELSE {NoSpawn},
     plife : {20}, tlife : {10}, fail : {{}}]

ClickCentre == MouseButtonDown(SCREEN_WIDTH \div 2, SCREEN_HEIGHT \div 2, {})

InitPlay == Construct(PlayW, PlayH)

NextPlay ==
    \/ ClickCentre
    \/ UpdateOpeningCrawl(FrameMs)
    \/ hist.idle < MaxIdle /\ FrameMenu(FrameMs)
    \/ \E i \in PlayInputs :
          score < MaxPlayTicks /\ now + i.dt <= MaxPlayNow /\ UpdateGame(i)
    \/ hist.idle < MaxIdle /\ FrameGameOver(FrameMs)

SpecPlay == InitPlay /\ [][NextPlay]_vars

-----------------------------------------------------------------------------
(* SpecDash: a DashW x DashH window; every frame holds one of DashKeys and  *)
(* takes FrameMs or, late, LagMs (the dash cooldown, so that a dash is      *)
(* asked for exactly at the cooldown); a game is followed for MaxDashTicks  *)
(* ticks.                                                                  *)

DashW == 260
DashH == 200
LagMs == DASH_COOLDOWN
MaxDashTicks == 4

DashKeys ==
    {{}, {"right"}, {"dash"}, {"dash", "right"}, {"dash", "left"},
     {"dash", "up"}, {"dash", "left", "up"}, {"dash", "right", "down"},
     {"dash", "left", "right"}, {"dash", "up", "down"}}

DashInputs ==
    [keys : DashKeys, dt : {FrameMs, LagMs},
     spawn : {<<Slow(0), Slow(0)>>},
     pu : {NoSpawn}, plife : {20}, tlife : {10}, fail : {{}}]

InitDash == Construct(DashW, DashH)

NextDash ==
    \/ hist.games < 1 /\ ClickCentre
    \/ UpdateOpeningCrawl(FrameMs)
    \/ hist.idle < MaxIdle /\ FrameMenu(FrameMs)
    \/ \E i \in DashInputs : score < MaxDashTicks /\ UpdateGame(i)

SpecDash == InitDash /\ [][NextDash]_vars

-----------------------------------------------------------------------------
(* SpecPower: the DashW x DashH window; no key is held; in every tick a     *)
(* power-up may spawn, of any type on the player or a shield or an extra    *)
(* life away from it, MaxPowerUps in all; frames take FrameMs or LagMs; a   *)
(* game is followed for MaxPowerTicks ticks.                                *)

MaxPowerTicks == 4
MaxPowerUps == 3

Near(type) == [x |-> 100, y |-> 100, type |-> type, bob |-> 0]
Away(type) == [x |-> 210, y |-> 150, type |-> type, bob |-> 0]

PowerInputs ==
    [keys : {{}}, dt : {FrameMs, LagMs},
     spawn : {<<Slow(0), Slow(0)>>},
     pu : IF hist.spawned < MaxPowerUps
          THEN {NoSpawn} \cup {<<Near(ty)>> : ty \in PowerUpType}
                         \cup {<<Away(ty)>> : ty \in {SHIELD, MULTI_LIFE}}
          ELSE {NoSpawn},
     plife : {20}, tlife : {10}, fail : {{}}]

NextPower ==
    \/ hist.games < 1 /\ ClickCentre
    \/ UpdateOpeningCrawl(FrameMs)
    \/ hist.idle < MaxIdle /\ FrameMenu(FrameMs)
    \/ \E i \in PowerInputs : score < MaxPowerTicks /\ UpdateGame(i)

SpecPower == InitDash /\ [][NextPower]_vars

-----------------------------------------------------------------------------
(* SpecAudio: the session of SpecPlay without keys and power-ups, where any *)
(* one of the audio calls of a frame may raise: Sound.play of the hit       *)
(* sound, pygame.mixer.music.stop, Sound.play of the game-over sound.       *)

AudioCalls == {"hit", "stop", "game_over"}
AudioFailures == {{}} \cup {{c} : c \in AudioCalls}

AudioInputs ==
    [keys : {{}}, dt : {FrameMs},
     spawn : IF Firing THEN {<<Slow(0), Slow(0)>>, <<Slow(45), Slow(45)>>}
             ELSE {<<Slow(0), Slow(0)>>},
     pu : {NoSpawn}, plife : {20}, tlife : {10}, fail : AudioFailures]

NextAudio ==
    \/ \E f \in AudioFailures :
          MouseButtonDown(SCREEN_WIDTH \div 2, SCREEN_HEIGHT \div 2, f)
    \/ UpdateOpeningCrawl(FrameMs)
    \/ hist.idle < MaxIdle /\ FrameMenu(FrameMs)
    \/ \E i \in AudioInputs :
          score < MaxPlayTicks /\ now + i.dt <= MaxPlayNow /\ UpdateGame(i)
    \/ hist.idle < MaxIdle /\ FrameGameOver(FrameMs)

SpecAudio == InitPlay /\ [][NextAudio]_vars

-----------------------------------------------------------------------------
(* SpecResize: the DashW x DashH window, which one VIDEORESIZE event may    *)
(* set to one of ResizeTo at any time: a width one short of the smallest    *)
(* range of the power-up draw, or a height one short of the smallest range  *)
(* of the projectile draw.  No key is held; every PuEvery ticks a shield    *)
(* may spawn, once; a game is followed for MaxResizeTicks ticks, past the   *)
(* first projectile.                                                        *)

MaxResizeTicks == 61
ResizeTo == {<<99, DashH>>, <<DashW, PROJECTILE_H - 1>>}

ResizeInputs ==
    [keys : {{}}, dt : {FrameMs},
     spawn : {<<Slow(0), Slow(0)>>},
     pu : IF score % PuEvery = 0 /\ hist.spawned < 1
          THEN {NoSpawn, <<Near(SHIELD)>>} ELSE {NoSpawn},
     plife : {20}, tlife : {10}, fail : {{}}]

NextResize ==
    \/ \E sz \in ResizeTo :
          /\ SCREEN_WIDTH = DashW /\ SCREEN_HEIGHT = DashH
          /\ VideoResize(sz[1], sz[2])
    \/ hist.games < 1 /\ ClickCentre
    \/ UpdateOpeningCrawl(FrameMs)
    \/ hist.idle < MaxIdle /\ FrameMenu(FrameMs)
    \/ \E i \in ResizeInputs : score < MaxResizeTicks /\ UpdateGame(i)

SpecResize == InitDash /\ [][NextResize]_vars

-----------------------------------------------------------------------------
(* SpecRestart: the session of SpecPlay played to its end and started      *)
(* again.  The dash key is the only key; a rapid-fire or slow-time          *)
(* power-up may spawn on the player, once, every PuEvery ticks.             *)

RestartInputs ==
    [keys : {{}, {"dash"}}, dt : {FrameMs},
     spawn : IF Firing THEN {<<Slow(0), Slow(0)>>, <<Slow(45), Slow(45)>>}
             ELSE {<<Slow(0), Slow(0)>>},
     pu : IF score % PuEvery = 0 /\ hist.spawned < 1
          THEN {NoSpawn, <<OnPlayer(RAPID_FIRE)>>, <<OnPlayer(SLOW_TIME)>>}
          ELSE {NoSpawn},
     plife : {20}, tlife : {10}, fail : {{}}]

NextRestart ==
    \/ ClickCentre
    \/ UpdateOpeningCrawl(FrameMs)
    \/ hist.idle < MaxIdle /\ FrameMenu(FrameMs)
    \/ \E i \in RestartInputs :
          score < MaxPlayTicks /\ now + i.dt <= MaxPlayNow /\ UpdateGame(i)
    \/ hist.idle < MaxIdle /\ FrameGameOver(FrameMs)

SpecRestart == InitPlay /\ [][NextRestart]_vars

-----------------------------------------------------------------------------
(* SpecExpiry: the DashW x DashH window; no key is held; one shield or     *)
(* slow-time power-up may spawn on the player; frames take FrameMs or       *)
(* LagMs, a divisor of POWERUP_DURATION, so that a tick may read the clock  *)
(* exactly at the expiry of the effect; a game is followed for              *)
(* MaxExpiryTicks ticks.                                                    *)

MaxExpiryTicks == 7

ExpiryInputs ==
    [keys : {{}}, dt : {FrameMs, LagMs},
     spawn : {<<Slow(0), Slow(0)>>},
     pu : IF hist.spawned < 1
          THEN {NoSpawn, <<Near(SHIELD)>>, <<Near(SLOW_TIME)>>}
          ELSE {NoSpawn},
     plife : {20}, tlife : {10}, fail : {{}}]

NextExpiry ==
    \/ hist.games < 1 /\ ClickCentre
    \/ UpdateOpeningCrawl(FrameMs)
    \/ hist.idle < MaxIdle /\ FrameMenu(FrameMs)
    \/ \E i \in ExpiryInputs : score < MaxExpiryTicks /\ UpdateGame(i)

SpecExpiry == InitDash /\ [][NextExpiry]_vars

-----------------------------------------------------------------------------
(* SpecCutscene: the session of Spec up to the cutscene and MaxAfter ticks *)
(* past it.  From score PuFrom on, MaxCutPowerUps power-ups may spawn: a    *)
(* timed one on the player or a shield aside.  The frames of the cutscene   *)
(* take FrameMs or, the first ones of a message, LagMs, a divisor of        *)
(* CUTSCENE_MESSAGE_DURATION, so that a frame may read the clock exactly    *)
(* when a message has been shown for its duration.                          *)

PuFrom == 996
MaxAfter == 3
MaxCutPowerUps == 2

AtCentre(type) ==
    [x |-> INIT_SCREEN_WIDTH \div 2, y |-> INIT_SCREEN_HEIGHT \div 2,
     type |-> type, bob |-> 0]
Aside(type) == [x |-> 200, y |-> 200, type |-> type, bob |-> 0]

CutsceneInputs ==
    [keys : {{}}, dt : {FrameMs},
     spawn : {MissLane},
     pu : IF score >= PuFrom /\ hist.spawned < MaxCutPowerUps
          THEN {NoSpawn, <<Aside(SHIELD)>>}
                  \cup {<<AtCentre(ty)>> : ty \in {SHIELD, RAPID_FIRE, SLOW_TIME}}
          ELSE {NoSpawn},
     plife : {20}, tlife : {10}, fail : {{}}]

NextCutscene ==
    \/ hist.games < 1 /\ MouseButtonDown(ButtonClick[1], ButtonClick[2], {})
    \/ UpdateOpeningCrawl(FrameMs)
    \/ hist.idle < MaxIdle /\ FrameMenu(FrameMs)
    \/ \E i \in CutsceneInputs :
          score < CUTSCENE_TRIGGER_SCORE + MaxAfter /\ UpdateGame(i)
    \/ UpdateCutscene(FrameMs)
    \/ (now - cutscene.timer_start) % LagMs = 0 /\ UpdateCutscene(LagMs)

SpecCutscene == Init /\ [][NextCutscene]_vars

-----------------------------------------------------------------------------
(* SpecFire: the session of Spec without a hit, one game followed for      *)
(* MaxFireTicks ticks, into the difficulty at which two projectiles are     *)
(* fired at once.  A rapid-fire power-up may spawn on the player FireAt     *)
(* ticks after each step of the difficulty, MaxFirePowerUps in all.         *)

MaxFireTicks == 2030
FireAt == 5
MaxFirePowerUps == 2

FireInputs ==
    [keys : {{}}, dt : {FrameMs},
     spawn : {MissLane},
     pu : IF score % DIFFICULTY_INCREASE_SCORE = FireAt
             /\ hist.spawned < MaxFirePowerUps
          THEN {NoSpawn, <<AtCentre(RAPID_FIRE)>>}
          ELSE {NoSpawn},
     plife : {20}, tlife : {10}, fail : {{}}]

NextFire ==
    \/ hist.games < 1 /\ MouseButtonDown(ButtonClick[1], ButtonClick[2], {})
    \/ UpdateOpeningCrawl(FrameMs)
    \/ hist.idle < MaxIdle /\ FrameMenu(FrameMs)
    \/ \E i \in FireInputs : score < MaxFireTicks /\ UpdateGame(i)
    \/ UpdateCutscene(FrameMs)

SpecFire == Init /\ [][NextFire]_vars

-----------------------------------------------------------------------------
(* SpecLifespan: the DashW x DashH window; the right key is the only key;   *)
(* on the first tick of a game a shield may spawn Beside the player, one    *)
(* step of the player to its right; frames take FrameMs or LagMs, a divisor *)
(* of POWERUP_LIFESPAN, so that a tick may read the clock exactly when the  *)
(* power-up is 10 seconds old; a game is followed for MaxLifeTicks ticks.   *)

MaxLifeTicks == 12

Beside(type) ==
    [x |-> DashW \div 2 + PLAYER_W \div 2 + 3, y |-> DashH \div 2,
     type |-> type, bob |-> 0]

LifespanInputs ==
    [keys : {{}, {"right"}}, dt : {FrameMs, LagMs},
     spawn : {<<Slow(0), Slow(0)>>},
     pu : IF score = 0 THEN {NoSpawn, <<Beside(SHIELD)>>} ELSE {NoSpawn},
     plife : {20}, tlife : {10}, fail : {{}}]

NextLifespan ==
    \/ hist.games < 1 /\ ClickCentre
    \/ UpdateOpeningCrawl(FrameMs)
    \/ hist.idle < MaxIdle /\ FrameMenu(FrameMs)
    \/ \E i \in LifespanInputs : score < MaxLifeTicks /\ UpdateGame(i)

SpecLifespan == InitDash /\ [][NextLifespan]_vars

-----------------------------------------------------------------------------
(* SpecCrawl: the opening crawl and the menu after it, with the events of  *)
(* the queue between frames: quit, a left click on the place of the start   *)
(* button or in the corner, a resize to CrawlResize, and the events of      *)
(* OtherKinds, which handle_events has no branch for.                       *)

OtherKinds == {"keydown", "mousebuttondown_3"}
CrawlResize == <<DashW, DashH>>

NextCrawl ==
    \/ Quit
    \/ MouseButtonDown(ButtonClick[1], ButtonClick[2], {})
    \/ MouseButtonDown(CornerClick[1], CornerClick[2], {})
    \/ \E kind \in OtherKinds : OtherEvent(kind)
    \/ SCREEN_WIDTH = INIT_SCREEN_WIDTH /\ VideoResize(CrawlResize[1], CrawlResize[2])
    \/ UpdateOpeningCrawl(FrameMs)
    \/ hist.idle < MaxIdle /\ FrameMenu(FrameMs)

SpecCrawl == Init /\ [][NextCrawl]_vars

-----------------------------------------------------------------------------
(* SpecMove: Player.move and Player.dash as functions of the player, the   *)
(* held keys and the play-field.  The play-field is one of MoveSizes (the   *)
(* DashW x DashH window, the player's own size, one pixel narrower than the *)
(* player, one pixel lower), the player starts at one of MoveXs x MoveYs,   *)
(* frozen or not, under slow time or not, with the dash cooldown over; each *)
(* step applies move and then dash under one of DashKeys or of the single   *)
(* direction keys, until the clock reads MaxMoveNow.                        *)

MaxMoveNow == 1040
MoveSizes ==
    {<<DashW, DashH>>, <<PLAYER_W, PLAYER_H>>,
     <<PLAYER_W - 1, DashH>>, <<DashW, PLAYER_H - 1>>}
MoveXs == {-70, 0, 3, DashW - PLAYER_W, DashW + 40}
MoveYs == {-70, 0, DashH - PLAYER_H - 2, DashH + 40}
MoveKeys == DashKeys \cup {{"left"}, {"up"}, {"down"}}

InitMove ==
    \E sz \in MoveSizes, x \in MoveXs, y \in MoveYs, fr \in BOOLEAN, slow \in BOOLEAN :
        /\ loop = "running"
        /\ now = DASH_COOLDOWN
        /\ SCREEN_WIDTH = sz[1]
        /\ SCREEN_HEIGHT = sz[2]
        /\ state = IF fr THEN CUTSCENE ELSE PLAYING
        /\ lives = INITIAL_LIVES
        /\ score = 0
        /\ cutscene_triggered = fr
        /\ screen_shake = 0
        /\ start_button_rect = StartButton(sz[1], sz[2])
        /\ player = [PlayerNew(0, 0) EXCEPT
                        !.x = x, !.y = y, !.frozen = fr,
                        !.slow_time_active = slow,
                        !.slow_time_end_time = IF slow THEN POWERUP_DURATION ELSE 0]
        /\ pm = [ProjectileManagerNew EXCEPT !.active = ~fr]
        /\ powerups = <<>>
        /\ particles = <<>>
        /\ cutscene = IF fr THEN CutsceneStart(DASH_COOLDOWN) ELSE CutsceneNew
        /\ crawl = CrawlNew
        /\ obs = ObsBase
        /\ hist = HistBase

\* Player.move, then Player.dash, at clock reading now + FrameMs
MoveDash(keys) ==
    /\ now + FrameMs <= MaxMoveNow
    /\ now' = now + FrameMs
    /\ \E p1 \in {PlayerMove(player, keys, SCREEN_WIDTH, SCREEN_HEIGHT)} :
       \E d \in {PlayerDash(p1, keys, now', SCREEN_WIDTH, SCREEN_HEIGHT)} :
          /\ player' = d.p
          /\ obs' = [ObsBase EXCEPT !.op = "move", !.t = now', !.keys = keys,
                                    !.p_in = player, !.p_moved = p1,
                                    !.dash_ret = d.ret, !.p_dashed = d.p]
    /\ UNCHANGED <<loop, SCREEN_WIDTH, SCREEN_HEIGHT, state, lives, score,
                   cutscene_triggered, screen_shake, start_button_rect, pm,
                   powerups, particles, cutscene, crawl, hist>>

NextMove == \E keys \in MoveKeys : MoveDash(keys)

SpecMove == InitMove /\ [][NextMove]_vars

-----------------------------------------------------------------------------
(* SpecStartup: the session of Spec, where the loading of any set of the   *)
(* assets may fail at startup.                                             *)

InitStartup ==
    \E failed \in SUBSET {Assets[k] : k \in 1..Len(Assets)} :
        ConstructWith(INIT_SCREEN_WIDTH, INIT_SCREEN_HEIGHT, failed)

SpecStartup == InitStartup /\ [][Next]_vars

-----------------------------------------------------------------------------
(* Properties *)

\* a step of update_game (the trigger path included)
GameStep == obs'.op \in {"update_game", "trigger"} /\ now' # now

Edges ==
    {<<OPENING_CRAWL, MENU>>, <<MENU, PLAYING>>, <<PLAYING, CUTSCENE>>,
     <<CUTSCENE, PLAYING>>, <<PLAYING, GAME_OVER>>, <<GAME_OVER, MENU>>}

\* C1: starting in OpeningCrawl, the session state changes only along
\* OpeningCrawl->Menu, Menu->Playing, Playing->Cutscene, Cutscene->Playing,
\* Playing->GameOver, GameOver->Menu; OpeningCrawl is never re-entered.
C1_Edges ==
    /\ state = OPENING_CRAWL
    /\ [][state' # state => <<state, state'>> \in Edges]_vars

\* a menu reached through every edge: after the crawl, a game with its
\* cutscene, and the game over
C1_Witness == state = MENU /\ lives = 0 /\ cutscene_triggered /\ score > CUTSCENE_TRIGGER_SCORE

\* C5: update_difficulty(score) sets the multiplier to 1.0 + floor(score /
\* 500) * 0.3 (tenths: 10 + 3k for 500k <= score < 500(k+1)); over
\* successive scores it never decreases and changes only at a multiple of 500.
C5_Difficulty ==
    /\ [](obs.op = "update_game" =>
            /\ \E k \in 0..obs.score_in :
                  /\ DIFFICULTY_INCREASE_SCORE * k <= obs.score_in
                  /\ obs.score_in < DIFFICULTY_INCREASE_SCORE * (k + 1)
                  /\ pm.difficulty_multiplier = 10 + 3 * k
            /\ obs.score_in = 0 => pm.difficulty_multiplier = 10
            /\ obs.score_in = 499 => pm.difficulty_multiplier = 10
            /\ obs.score_in = 500 => pm.difficulty_multiplier = 13
            /\ obs.score_in = 1000 => pm.difficulty_multiplier = 16)
    /\ [][obs.op = "update_game" /\ obs'.op = "update_game"
            /\ obs'.score_in = obs.score_in + 1
          => /\ pm'.difficulty_multiplier >= pm.difficulty_multiplier
             /\ pm'.difficulty_multiplier # pm.difficulty_multiplier
                  => obs'.score_in % DIFFICULTY_INCREASE_SCORE = 0]_vars

\* update_difficulty has run on score 1000 (after the cutscene)
C5_Witness == obs.op = "update_game" /\ obs.score_in = 1000 /\ pm.difficulty_multiplier = 16

\* C8: within one game Cutscene.start is invoked exactly once, on the first
\* Playing tick that begins with score >= CUTSCENE_TRIGGER_SCORE, and never
\* again on a later tick of that game.
C8_StartOnce ==
    /\ [](/\ hist.starts <= 1
          /\ state = PLAYING /\ hist.starts = 0 => score <= CUTSCENE_TRIGGER_SCORE)
    /\ [][/\ hist.starts' = hist.starts + 1
             => GameStep /\ score >= CUTSCENE_TRIGGER_SCORE /\ hist.starts = 0
          /\ GameStep /\ score >= CUTSCENE_TRIGGER_SCORE /\ hist.starts = 0
             => hist.starts' = 1]_vars

\* play goes on past the trigger score after the one cutscene of the game
C8_Witness ==
    state = PLAYING /\ score >= CUTSCENE_TRIGGER_SCORE + 3 /\ hist.starts = 1

\* a completed pass of update_game past the cutscene trigger
Tick == obs.op = "update_game" /\ loop = "running"

\* C2: lives >= 0 in every state; GameOver is entered in exactly the tick in
\* which lives first reaches 0, so lives >= 1 whenever the state is Playing or
\* Cutscene.
C2_Lives ==
    /\ [](/\ lives >= 0
          /\ state \in {PLAYING, CUTSCENE} => lives >= 1
          /\ state = GAME_OVER => lives = 0)
    /\ [][/\ (state # GAME_OVER /\ state' = GAME_OVER) <=> (lives >= 1 /\ lives' = 0)
          /\ state # GAME_OVER /\ state' = GAME_OVER => GameStep]_vars

\* the game ends on the hit that takes the last life, after an extra life
C2_Witness ==
    /\ obs.op = "update_game" /\ state = GAME_OVER /\ lives = 0
    /\ obs.lives_in = 1 /\ hist.spawned >= 1

\* the projectiles that overlap the player when check_collision is called
Hits ==
    {k \in 1..Len(obs.proj_before) :
        CollideRect(ProjectileRect(obs.proj_before[k]), PlayerRect(obs.p_coll))}

\* C3: with the shield active, check_collision returns false and leaves the
\* projectile list as it was, however many projectiles overlap the player;
\* no life is lost in that tick.
C3_Shield ==
    Tick /\ obs.p_coll.shield_active
    => /\ ~obs.coll_ret
       /\ pm.projectiles = obs.proj_before
       /\ lives = obs.lives_coll
       /\ lives >= obs.lives_in

\* two projectiles overlap the shielded player at once
C3_Witness ==
    Tick /\ obs.p_coll.shield_active /\ Cardinality(Hits) >= 2 /\ lives = obs.lives_in

\* C4: with the shield inactive, check_collision returns true iff some stored
\* projectile overlaps the player, and then removes exactly the first
\* overlapping one, the others keeping their places and order; lives drops
\* by at most 1 in a tick.
C4_FirstHit ==
    Tick /\ ~obs.p_coll.shield_active
    => /\ obs.coll_ret <=> Hits # {}
       /\ Hits = {} => pm.projectiles = obs.proj_before
       /\ Hits # {} =>
            \E k \in Hits :
               /\ \A j \in Hits : k <= j
               /\ Len(pm.projectiles) = Len(obs.proj_before) - 1
               /\ \A j \in 1..Len(pm.projectiles) :
                     pm.projectiles[j] = obs.proj_before[IF j < k THEN j ELSE j + 1]
       /\ lives = obs.lives_coll - (IF Hits # {} THEN 1 ELSE 0)
       /\ lives >= obs.lives_in - 1

\* two projectiles overlap the unshielded player at once: one life is lost
C4_Witness ==
    Tick /\ ~obs.p_coll.shield_active /\ Cardinality(Hits) >= 2
         /\ lives = obs.lives_in - 1 /\ Len(pm.projectiles) >= 1

\* C6: with the cooldown elapsed, a dash key held and no movement key held,
\* dash returns true, moves the player DASH_DISTANCE to the right clamped to
\* the play field, keeps the vertical position, sets last_dash_time to now
\* and appends exactly 5 trail points with alphas 150, 120, 90, 60, 30.
C6_Dash ==
    Tick /\ obs.t - obs.p_moved.last_dash_time > DASH_COOLDOWN
         /\ "dash" \in obs.keys /\ obs.keys \cap DirKeys = {}
    => /\ obs.dash_ret
       /\ obs.p_dashed.x = Min(obs.p_moved.x + DASH_DISTANCE, SCREEN_WIDTH - PLAYER_W)
       /\ obs.p_dashed.y = obs.p_moved.y
       /\ obs.p_dashed.last_dash_time = obs.t
       /\ Len(obs.p_dashed.dash_trail) = Len(obs.p_moved.dash_trail) + 5
       /\ SubSeq(obs.p_dashed.dash_trail, 1, Len(obs.p_moved.dash_trail))
            = obs.p_moved.dash_trail
       /\ \A k \in 1..5 :
            obs.p_dashed.dash_trail[Len(obs.p_moved.dash_trail) + k].alpha
               = <<150, 120, 90, 60, 30>>[k]

\* a dash with no direction held that the right edge cuts short, made while
\* points of the previous dash are still in the trail
C6_Witness ==
    /\ Tick /\ obs.dash_ret /\ obs.keys = {"dash"}
    /\ obs.p_moved.x + DASH_DISTANCE > SCREEN_WIDTH - PLAYER_W
    /\ obs.p_dashed.x > obs.p_moved.x
    /\ Len(obs.p_moved.dash_trail) > 0

\* C7: when now - last_dash_time does not exceed DASH_COOLDOWN, or no dash
\* key is held, dash returns false and changes nothing: position, dash trail
\* and last_dash_time stay as they were.
C7_NoDash ==
    Tick /\ (obs.t - obs.p_moved.last_dash_time <= DASH_COOLDOWN \/ "dash" \notin obs.keys)
    => /\ ~obs.dash_ret
       /\ obs.p_dashed = obs.p_moved

\* a second dash asked for exactly DASH_COOLDOWN after a successful one
C7_Witness ==
    /\ Tick /\ "dash" \in obs.keys /\ ~obs.dash_ret
    /\ obs.p_moved.last_dash_time > 0
    /\ obs.t - obs.p_moved.last_dash_time = DASH_COOLDOWN
    /\ obs.p_dashed.x = obs.p_moved.x

\* the power-ups that overlap the player in the collection loop
Touched ==
    {k \in 1..Len(obs.pus_before) :
        CollideRect(PowerUpRect(obs.pus_before[k]), PlayerRect(obs.p_coll))}

TouchedOf(type) == {k \in Touched : obs.pus_before[k].type = type}

Effects(p) ==
    <<p.shield_active, p.shield_end_time, p.rapid_fire_active,
      p.rapid_fire_end_time, p.slow_time_active, p.slow_time_end_time>>

EffectOf(p, type) ==
    IF type = SHIELD THEN <<p.shield_active, p.shield_end_time>>
    ELSE IF type = RAPID_FIRE THEN <<p.rapid_fire_active, p.rapid_fire_end_time>>
    ELSE <<p.slow_time_active, p.slow_time_end_time>>

\* C9: a MultiLife power-up that overlaps the player in a Playing tick adds
\* exactly 1 life, leaves the power-up list in that tick, and changes none
\* of the player's shield, rapid-fire and slow-time flags and expiries.
C9_MultiLife ==
    Tick
    => /\ obs.lives_coll = obs.lives_in + Cardinality(TouchedOf(MULTI_LIFE))
       /\ powerups = SelectIdx(obs.pus_before, (1..Len(obs.pus_before)) \ Touched, 1)
       /\ Touched = TouchedOf(MULTI_LIFE) => Effects(obs.p_coll) = Effects(obs.p_upd)

\* an extra life taken while the shield runs and another power-up lies away
C9_Witness ==
    /\ Tick /\ TouchedOf(MULTI_LIFE) # {} /\ lives = obs.lives_in + 1
    /\ obs.p_upd.shield_active /\ player.shield_active
    /\ Len(powerups) >= 1

\* C10: collecting Shield, RapidFire or SlowTime at time now switches that
\* effect on with expiry now + POWERUP_DURATION, whatever its expiry was
\* (no stacking), and changes neither lives nor the other two effects.
C10_Timed ==
    Tick
    => /\ \A ty \in {SHIELD, RAPID_FIRE, SLOW_TIME} :
            IF TouchedOf(ty) # {}
            THEN EffectOf(obs.p_coll, ty) = <<TRUE, obs.t + POWERUP_DURATION>>
            ELSE EffectOf(obs.p_coll, ty) = EffectOf(obs.p_upd, ty)
       /\ TouchedOf(MULTI_LIFE) = {} => obs.lives_coll = obs.lives_in

\* a shield collected again while the first still runs, slow-time running
C10_Witness ==
    /\ Tick /\ TouchedOf(SHIELD) # {}
    /\ obs.p_upd.shield_active /\ obs.p_upd.shield_end_time > obs.t
    /\ obs.p_upd.shield_end_time < obs.t + POWERUP_DURATION
    /\ player.shield_end_time = obs.t + POWERUP_DURATION
    /\ obs.p_upd.slow_time_active /\ player.slow_time_active

\* C11: OpeningCrawl.update returns false while the last line (24 lines, 50
\* apart from y = 700, 1.5 per tick; halves here) is not above -100 and
\* returns true exactly once, on call 1301; the session moves to Menu on
\* that call and update is not called again.
C11_Crawl ==
    /\ [](/\ hist.crawl_true = (IF hist.crawl_calls >= 1301 THEN 1 ELSE 0)
          /\ hist.crawl_calls <= 1301
          /\ state = OPENING_CRAWL <=> hist.crawl_true = 0
          /\ crawl.text_y_positions[NUM_CRAWL_LINES]
               = 2 * (700 + 23 * 50) - 3 * hist.crawl_calls)
    /\ [][hist.crawl_calls' # hist.crawl_calls
          => /\ hist.crawl_calls' = hist.crawl_calls + 1
             /\ hist.crawl_true' = hist.crawl_true + 1
                  <=> crawl'.text_y_positions[NUM_CRAWL_LINES] < -200
             /\ hist.crawl_true' = hist.crawl_true + 1 => state' = MENU
             /\ hist.crawl_true' = hist.crawl_true => state' = OPENING_CRAWL]_vars

\* a game is being played long after the one true return of the crawl
C11_Witness ==
    hist.crawl_true = 1 /\ hist.crawl_calls = 1301 /\ state = PLAYING /\ score > 100

\* C12: on every tick that begins in Playing, score increases by exactly 1,
\* whatever else the tick does (a hit, a pickup, the cutscene trigger, the
\* move to GameOver); score changes on no other step but the reset to 0 of
\* a start action.
C12_Score ==
    [][/\ (loop = "running" /\ state = PLAYING /\ now' # now) => score' = score + 1
       /\ score' # score =>
             \/ state = PLAYING /\ now' # now
             \/ state = MENU /\ state' = PLAYING /\ score' = 0]_vars

\* C13: the start action is accepted only in Menu, by a pointer-down inside
\* the start button; right after it the state is Playing, lives 3, score 0,
\* the projectile, power-up and particle lists are empty, the cutscene flag
\* is cleared and the projectile manager is active.  A pointer-down in
\* Playing, Cutscene or OpeningCrawl changes nothing.
C13_Start ==
    [][/\ (hist.games' # hist.games \/ obs'.op = "start_game")
            => /\ state = MENU /\ now' = now
               /\ hist.games' = hist.games + 1
               /\ RectTrue(start_button_rect)
               /\ CollidePoint(start_button_rect, obs'.at[1], obs'.at[2])
               /\ state' = PLAYING /\ lives' = 3 /\ score' = 0
               /\ pm'.projectiles = <<>> /\ powerups' = <<>> /\ particles' = <<>>
               /\ ~cutscene_triggered' /\ pm'.active
       /\ (state = MENU /\ state' # MENU) => hist.games' = hist.games + 1
       /\ (state \in {PLAYING, CUTSCENE, OPENING_CRAWL} /\ now' = now)
            => obs'.op \in {"quit", "resize"}]_vars

\* a second game started from the menu after a game over that left
\* projectiles and particles behind and the cutscene flag set
C13_Witness ==
    /\ obs.op = "start_game" /\ hist.games = 2 /\ obs.at = ButtonClick
    /\ obs.lives_in = 0 /\ obs.score_in > CUTSCENE_TRIGGER_SCORE
    /\ Len(obs.proj_before) > 0 /\ Len(obs.particles_in) > 0
    /\ state = PLAYING /\ lives = 3 /\ score = 0 /\ ~cutscene_triggered
    /\ pm.projectiles = <<>> /\ pm.active /\ powerups = <<>> /\ particles = <<>>

\* C14: between ticks the state is Cutscene exactly when the player is
\* frozen, exactly when the projectile manager is inactive, exactly when
\* cutscene.active holds; entering Cutscene sets all three, completing it
\* clears all three and returns to Playing.
C14_Cutscene ==
    /\ [](/\ state = CUTSCENE <=> player.frozen
          /\ state = CUTSCENE <=> ~pm.active
          /\ state = CUTSCENE <=> cutscene.active)
    /\ [][/\ (state # CUTSCENE /\ state' = CUTSCENE)
                => /\ state = PLAYING
                   /\ player'.frozen /\ ~pm'.active /\ cutscene'.active
          /\ (state = CUTSCENE /\ state' # CUTSCENE)
                => /\ state' = PLAYING
                   /\ ~player'.frozen /\ pm'.active /\ ~cutscene'.active]_vars

\* the tick on which the cutscene completes
C14_Witness ==
    /\ obs.op = "update_cutscene" /\ state = PLAYING /\ hist.starts = 1
    /\ cutscene.stage = NUM_MESSAGES
    /\ ~player.frozen /\ pm.active /\ ~cutscene.active

\* C15: a failure of an audio call during the loop (starting or stopping the
\* music, the hit sound, the game-over sound) is recovered locally and never
\* terminates the loop.
C15_Audio == loop # "crashed"

\* C16: no sequence of inputs (keys, pointer-downs, a resize to any size)
\* and ticks makes a per-tick update fail.
C16_Total == [][loop = "running" => loop' \in {"running", "quit"}]_vars

\* C17: if loading any required asset (menu background, start button,
\* enemy image, player animation, hit sound, game-over sound) fails at
\* startup, the program aborts before the loop: no tick is executed and no
\* state other than the initial one is reached.
C17_Startup ==
    /\ [](hist.load_failed # {}
            => /\ loop = "aborted"
               /\ state = OPENING_CRAWL /\ now = 0 /\ obs.op = "init"
               /\ hist.crawl_calls = 0 /\ hist.games = 0 /\ score = 0)
    /\ [](loop = "aborted" => hist.load_failed # {})
    /\ [][hist.load_failed = {} /\ loop = "running"]_vars

\* the start at which only the game-over sound fails to load
C17_Witness == hist.load_failed = {"game_over"} /\ loop = "aborted" /\ now = 0

\* C18: a Playing tick runs player move, dash, player timer expiry,
\* difficulty, projectile advance and spawn, particles, power-up expiry and
\* spawn, power-up collection, projectile-player collision, screen-shake
\* decay, score increment, in this order.  So a Shield collected in a tick
\* blocks a projectile hit in that tick, and a MultiLife collected at
\* lives = 1 in the tick of a hit leaves lives = 1 and the session Playing.
C18_Order ==
    /\ [](Tick =>
            /\ obs.p_dashed = PlayerDash(obs.p_moved, obs.keys, obs.t,
                                         SCREEN_WIDTH, SCREEN_HEIGHT).p
            /\ obs.p_upd = PlayerUpdate(obs.p_dashed, obs.t)
            /\ pm.difficulty_multiplier
                 = 10 + (obs.score_in \div DIFFICULTY_INCREASE_SCORE) * 3
            /\ Touched = {} => obs.p_coll = obs.p_upd
            /\ TouchedOf(SHIELD) # {}
                 => /\ obs.p_coll.shield_active /\ ~obs.coll_ret
                    /\ pm.projectiles = obs.proj_before
                    /\ lives >= obs.lives_in
            /\ obs.lives_coll = obs.lives_in + Cardinality(TouchedOf(MULTI_LIFE))
            /\ lives = obs.lives_coll - (IF obs.coll_ret THEN 1 ELSE 0)
            /\ (obs.lives_in = 1 /\ Cardinality(TouchedOf(MULTI_LIFE)) = 1
                   /\ obs.coll_ret)
                 => lives = 1 /\ state = PLAYING
            /\ obs.coll_ret => screen_shake = SHAKE_FRAMES - 1
            /\ score = obs.score_in + 1)
    /\ [][(hist.spawned' # hist.spawned /\ loop' = "running")
             => \E k \in 1..Len(obs'.pus_before) :
                   obs'.pus_before[k].spawn_time = obs'.t]_vars

\* an extra life spawns on the player who has one life left, in the tick in
\* which a projectile hits: the life is taken first, the game goes on
C18_Witness ==
    /\ Tick /\ obs.lives_in = 1 /\ obs.coll_ret
    /\ \E k \in TouchedOf(MULTI_LIFE) : obs.pus_before[k].spawn_time = obs.t
    /\ lives = 1 /\ state = PLAYING

\* C19: the Player is reset on every new game: right after a start action
\* the player is at the centre of the play-field, not frozen, with shield,
\* rapid fire and slow time inactive and an empty dash trail, whatever the
\* player's state was at the end of the previous game.
C19_Reset ==
    [][hist.games' = hist.games + 1
        => /\ player'.x = SCREEN_WIDTH \div 2 - PLAYER_W \div 2
           /\ player'.y = SCREEN_HEIGHT \div 2 - PLAYER_H \div 2
           /\ ~player'.frozen
           /\ ~player'.shield_active
           /\ ~player'.rapid_fire_active
           /\ ~player'.slow_time_active
           /\ player'.dash_trail = <<>>]_vars

\* C20: Player.update at clock reading now expires every timed effect whose
\* expiry is <= now (the boundary expiry = now included): after it no
\* effect among shield, rapid fire and slow time is active with an expiry
\* <= now, and an effect whose expiry is > now stays active.
C20_Expiry ==
    Tick
    => \A ty \in {SHIELD, RAPID_FIRE, SLOW_TIME} :
          /\ EffectOf(obs.p_upd, ty)[1] => EffectOf(obs.p_upd, ty)[2] > obs.t
          /\ (EffectOf(obs.p_dashed, ty)[1] /\ EffectOf(obs.p_dashed, ty)[2] > obs.t)
               => EffectOf(obs.p_upd, ty)[1]

\* C21: Player.update lowers the alpha of every dash-trail entry by exactly
\* 30 and drops the entries at alpha <= 0: after it every entry still in the
\* trail has alpha > 0, and the 5 points of a dash (150, 120, 90, 60, 30)
\* are gone after 5 updates.
C21_Trail ==
    Tick
    => /\ \A k \in 1..Len(obs.p_upd.dash_trail) : obs.p_upd.dash_trail[k].alpha > 0
       /\ \A k \in 1..Len(obs.p_upd.dash_trail) :
             \E j \in 1..Len(obs.p_dashed.dash_trail) :
                obs.p_dashed.dash_trail[j] =
                   [obs.p_upd.dash_trail[k] EXCEPT
                       !.alpha = obs.p_upd.dash_trail[k].alpha + 30]

\* C22: after start the cutscene goes through stage 0 and then stage 1, in
\* order, never skipping or repeating a stage; update advances the stage
\* only when now - timer_start >= CUTSCENE_MESSAGE_DURATION, returns true
\* only on the call that exhausts the stages (deactivating the cutscene) or
\* when the cutscene is already inactive, and false on every other call.
\* While active the stage is 0 or 1, and a cutscene lasts at least 6000 ms.
C22_Stages ==
    /\ [](/\ cutscene.active => cutscene.stage \in {0, 1}
          /\ cutscene.active => cutscene.timer_start <= now
          /\ (cutscene.active /\ cutscene.stage = 0)
               => cutscene.timer_start = hist.cut_start
          /\ (cutscene.active /\ cutscene.stage = 1)
               => cutscene.timer_start
                     >= hist.cut_start + CUTSCENE_MESSAGE_DURATION
          /\ ~cutscene.active => cutscene.stage \in {0, NUM_MESSAGES})
    /\ [][/\ (~cutscene.active /\ cutscene'.active)
               => cutscene'.stage = 0 /\ cutscene'.timer_start = now'
          /\ (cutscene.active /\ cutscene'.stage # cutscene.stage)
               => /\ cutscene'.stage = cutscene.stage + 1
                  /\ now' - cutscene.timer_start >= CUTSCENE_MESSAGE_DURATION
          /\ (cutscene.active /\ now' # now
                /\ now' - cutscene.timer_start >= CUTSCENE_MESSAGE_DURATION)
               => cutscene'.stage = cutscene.stage + 1
          /\ (cutscene.active /\ cutscene'.active /\ cutscene'.stage = 1
                /\ cutscene.stage = 0)
               => cutscene'.timer_start = now'
          /\ (cutscene.active /\ now' # now)
               => /\ state' = PLAYING <=> (cutscene.stage = 1 /\ cutscene'.stage = 2)
                  /\ state' = PLAYING <=> ~cutscene'.active
                  /\ state' = PLAYING
                       => now' - cutscene.timer_start >= CUTSCENE_MESSAGE_DURATION
                  /\ state' = PLAYING
                       => now' - hist.cut_start
                             >= NUM_MESSAGES * CUTSCENE_MESSAGE_DURATION
                  /\ state' # PLAYING => state' = CUTSCENE]_vars

\* a cutscene whose two messages were each shown for exactly their duration
C22_Witness ==
    /\ obs.op = "update_cutscene" /\ state = PLAYING /\ ~cutscene.active
    /\ cutscene.stage = NUM_MESSAGES
    /\ now = hist.cut_start + NUM_MESSAGES * CUTSCENE_MESSAGE_DURATION

\* C23: while the session is in Cutscene, and on the tick that enters it, no
\* gameplay state advances: score, lives, the player's position, the
\* projectile list with every projectile's position, the fire counter and
\* the power-up list are unchanged by every tick until the cutscene
\* completes; no projectile is spawned or moved while the projectile manager
\* is inactive.
C23_Frozen ==
    [][/\ ((state = CUTSCENE \/ state' = CUTSCENE) /\ now' # now)
            => /\ score' = score /\ lives' = lives
               /\ player'.x = player.x /\ player'.y = player.y
               /\ pm'.projectiles = pm.projectiles
               /\ pm'.fire_counter = pm.fire_counter
               /\ powerups' = powerups
       /\ ~pm.active => pm'.projectiles = pm.projectiles]_vars

\* the second message of a cutscene that began with projectiles in flight
\* and a power-up on the field
C23_Witness ==
    /\ state = CUTSCENE /\ obs.op = "update_cutscene" /\ cutscene.stage = 1
    /\ ~pm.active /\ Len(pm.projectiles) > 0 /\ Len(powerups) > 0
    /\ pm.fire_counter > 0 /\ score = CUTSCENE_TRIGGER_SCORE

\* the projectiles stored before a tick that are still stored after
\* ProjectileManager.update of that tick, and the ones it spawned
Survivors ==
    {k \in 1..Len(pm.projectiles) :
        ProjectileOnScreen(ProjectileMove(pm.projectiles[k],
                                          TimeMultiplier(obs'.p_upd)), SCREEN_WIDTH)}
Fired == Len(obs'.proj_before) - Cardinality(Survivors)

\* C24: every update of an active projectile manager increments the fire
\* counter by 1; if it has then reached PROJECTILE_FIRE_DELAY / difficulty
\* (doubled while rapid fire is active) it is reset to 0 and exactly 1
\* projectile is spawned when difficulty < 2.0, exactly 2 otherwise; if not,
\* none is spawned.  At difficulty 1.0 a spawn happens every 14th tick
\* without rapid fire (the counter stands at 13 before every spawn of a
\* game in which rapid fire was never collected) and every 28th tick with
\* it (at 27 before every spawn under rapid fire).
C24_Fire ==
    [][(obs'.op = "update_game" /\ now' # now /\ loop' = "running" /\ pm.active)
        => LET c == pm.fire_counter + 1
               dm10 == pm'.difficulty_multiplier
               rapid == obs'.p_upd.rapid_fire_active
               due == c * dm10 >= PROJECTILE_FIRE_DELAY * 10 * (IF rapid THEN 2 ELSE 1)
           IN /\ pm'.fire_counter = (IF due THEN 0 ELSE c)
              /\ Fired = (IF ~due THEN 0 ELSE IF dm10 < 20 THEN 1 ELSE 2)
              /\ (dm10 = 10 /\ ~rapid) => (Fired = 1 <=> c >= 14)
              /\ (dm10 = 10 /\ rapid) => (Fired = 1 <=> c >= 28)
              /\ (dm10 = 10 /\ Fired = 1 /\ obs'.p_upd.rapid_fire_end_time = 0)
                   => pm.fire_counter = 13
              /\ (dm10 = 10 /\ Fired = 1 /\ rapid) => pm.fire_counter = 27]_vars

\* two projectiles fired at once, at difficulty 2.2 under rapid fire
C24_Witness ==
    /\ Tick /\ pm.difficulty_multiplier = 22 /\ obs.p_upd.rapid_fire_active
    /\ pm.fire_counter = 0 /\ Len(obs.proj_before) >= 2
    /\ obs.proj_before[Len(obs.proj_before)].x = obs.proj_before[Len(obs.proj_before) - 1].x

\* C25: on each update of an active projectile manager every stored
\* projectile moves right by speed x time multiplier (0.3 while slow time is
\* active, else 1.0) and never left or vertically; after the update no
\* stored projectile has its left edge beyond the right edge of the
\* play-field; every projectile is removed in the end.
C25_Move ==
    [][(obs'.op = "update_game" /\ now' # now /\ loop' = "running" /\ pm.active)
        => /\ \A j \in 1..Len(obs'.proj_before) :
                 obs'.proj_before[j].x <= SCREEN_WIDTH
           /\ \A k \in 1..Len(pm.projectiles) :
                 \/ 10000 * pm.projectiles[k].x
                       + pm.projectiles[k].speed * TimeMultiplier(obs'.p_upd)
                      > 10000 * SCREEN_WIDTH
                 \/ \E j \in 1..Len(obs'.proj_before) :
                       /\ obs'.proj_before[j].y = pm.projectiles[k].y
                       /\ obs'.proj_before[j].speed = pm.projectiles[k].speed
                       /\ 10000 * obs'.proj_before[j].x
                            = 10000 * pm.projectiles[k].x
                                + pm.projectiles[k].speed
                                    * TimeMultiplier(obs'.p_upd)]_vars

\* the power-ups stored before a tick that are 10 seconds old at its clock
\* reading
Aged == {k \in 1..Len(obs.pus_in) : obs.t - obs.pus_in[k].spawn_time >= POWERUP_LIFESPAN}

\* C26: a power-up expires 10 seconds after it was spawned: none whose age
\* (now - spawn timestamp) is >= 10000 ms survives the power-up update of a
\* Playing tick, a younger one is never removed except by collection (or a
\* new-game reset), and one that expires in a tick cannot be collected in
\* that tick.
C26_Lifespan ==
    Tick
    => /\ \A j \in 1..Len(obs.pus_before) :
             obs.t - obs.pus_before[j].spawn_time < POWERUP_LIFESPAN
       /\ \A k \in (1..Len(obs.pus_in)) \ Aged :
             \E j \in 1..Len(obs.pus_before) :
                obs.pus_before[j] = PowerUpBob(obs.pus_in[k], obs.t)
       /\ Len(obs.pus_before) - Len(obs.pus_in) + Cardinality(Aged) \in {0, 1}
       /\ powerups = SelectIdx(obs.pus_before, (1..Len(obs.pus_before)) \ Touched, 1)
       /\ Len(obs.taken) = Cardinality(Touched)
       /\ \A j \in 1..Len(obs.taken) :
             obs.t - obs.taken[j].spawn_time < POWERUP_LIFESPAN

\* the player steps onto a shield in the tick in which it is exactly 10
\* seconds old: the shield is gone and nothing is collected
C26_Witness ==
    /\ Tick /\ obs.taken = <<>> /\ powerups = <<>> /\ ~player.shield_active
    /\ \E k \in Aged :
          /\ obs.t - obs.pus_in[k].spawn_time = POWERUP_LIFESPAN
          /\ CollideRect(PowerUpRect(PowerUpBob(obs.pus_in[k], obs.t)),
                         PlayerRect(obs.p_coll))

\* the player's box lies inside the play-field
InField(p) ==
    /\ 0 <= p.x /\ p.x + PLAYER_W <= SCREEN_WIDTH
    /\ 0 <= p.y /\ p.y + PLAYER_H <= SCREEN_HEIGHT

=============================================================================
